---- MODULE Spec2Model ----
(***************************************************************************)
(* Model of parser.py of arg-senate-data: the Record Parser                *)
(* (parse_votation_data), the year-key derivation (get_output_filename),   *)
(* and the Acquisition Controller with its Year Store (main).              *)
(*                                                                         *)
(* A document text is a sequence of lines.  Each line is a record whose    *)
(* tag names the labelled marker the parser's regular expressions look     *)
(* for, and whose other fields are what the capture groups capture.        *)
(* Python's None is the empty tuple, a present value v is <<v>>.           *)
(***************************************************************************)
EXTENDS Integers, Sequences, FiniteSets, TLC

VARIABLES
    pc,                    \* "load", "loop", "done" (main), or "parse", "parsed"
    results_by_year,       \* main: dict filename -> list of records
    current_id,            \* main: cursor
    consecutive_failures,  \* main: failure counter
    text,                  \* main: last value returned by extract_text_from_pdf
    data,                  \* main: last value returned by parse_votation_data
    files,                 \* the year files on disk, by filename
    reported,              \* the identifier printed on line 229
    outcome,               \* history: which branch the last iteration took
    startFiles,            \* history: the year files when the run started
    markId,                \* history: cursor at the last state with counter 0
    markFiles,             \* history: files at the last state with counter 0
    nfRun,                 \* history: not-found responses in a row since the mark
    sinceStored,           \* history: identifiers attempted since the last append
    unsaved                \* history: <<filename, act_id>> of every failed write

vars == <<pc, results_by_year, current_id, consecutive_failures, text, data,
          files, reported, outcome, startFiles, markId, markFiles, nfRun,
          sinceStored, unsaved>>

-----------------------------------------------------------------------------
(* Bounds *)

LastDoc == 3      \* identifiers START_ID+1 .. START_ID+LastDoc exist in the archive
MaxLines == 3     \* longest text given to the parser on its own

-----------------------------------------------------------------------------
(* Program constants *)

START_ID == 2433
MAX_CONSECUTIVE_FAILURES == 5
FirstLoadYear == 2023
EndLoadYear == 2025       \* range(2023, 2025) excludes its end

None == <<>>
Some(v) == <<v>>
Val(o) == o[1]

-----------------------------------------------------------------------------
(* Strings the parser edits are sequences of characters. *)

RECURSIVE lstrip(_)
lstrip(s) == IF s # <<>> /\ Head(s) = " " THEN lstrip(Tail(s)) ELSE s

RECURSIVE rstrip(_)
rstrip(s) ==
    IF s # <<>> /\ s[Len(s)] = " " THEN rstrip(SubSeq(s, 1, Len(s) - 1)) ELSE s

strip(s) == rstrip(lstrip(s))

\* str.replace('  ', ' '): non-overlapping occurrences, left to right
RECURSIVE replace_double_space(_)
replace_double_space(s) ==
    IF Len(s) < 2 THEN s
    ELSE IF s[1] = " " /\ s[2] = " "
         THEN <<" ">> \o replace_double_space(SubSeq(s, 3, Len(s)))
         ELSE <<s[1]>> \o replace_double_space(Tail(s))

-----------------------------------------------------------------------------
(* get_output_filename *)

IsLeap(y) == (y % 4 = 0 /\ y % 100 # 0) \/ y % 400 = 0

DaysInMonth(m, y) ==
    IF m = 2 THEN (IF IsLeap(y) THEN 29 ELSE 28)
    ELSE IF m \in {4, 6, 9, 11} THEN 30 ELSE 31

\* datetime.strptime(date_str, "%d/%m/%Y %H:%M:%S") does not raise ValueError
strptime_ok(d) ==
    /\ d.year >= 1
    /\ d.month >= 1 /\ d.month <= 12
    /\ d.day >= 1 /\ d.day <= DaysInMonth(d.month, d.year)
    /\ d.hour <= 23
    /\ d.minute <= 59
    /\ d.second <= 59

Filename(year) == <<"senate_voting_data_", year, ".json">>

get_output_filename(date_str) ==
    IF date_str = None THEN None
    ELSE IF strptime_ok(Val(date_str)) THEN Some(Filename(Val(date_str).year))
    ELSE None

-----------------------------------------------------------------------------
(* parse_votation_data *)

\* re.search: the first line carrying the marker, or None
RECURSIVE search(_, _)
search(tag, t) ==
    IF t = <<>> THEN None
    ELSE IF Head(t).tag = tag THEN Some(Head(t))
    ELSE search(tag, Tail(t))

\* re.search(r'MOCION SOBRE TABLAS N (\d+/\d+)'): the first legacy marker
\* whose identifier has the <number>/<number> shape
RECURSIVE search_mocion(_)
search_mocion(t) ==
    IF t = <<>> THEN None
    ELSE IF Head(t).tag = "MOCION SOBRE TABLAS" /\ Head(t).den # None
         THEN Some(Head(t))
    ELSE search_mocion(Tail(t))

Field(k, v) == k :> v

\* lines 62-83
motion_fields(t) ==
    LET project_match == search("Proyecto", t) IN
    IF project_match # None
    THEN LET p == Val(project_match) IN
         IF p.orden # None
         THEN IF p.title # None
              THEN Field("motion_number", p.orden) @@ Field("project_title", p.title)
              ELSE Field("motion_number", p.orden)
         ELSE Field("project_title", Some(p.raw))
    ELSE LET motion_match == search_mocion(t) IN
         IF motion_match # None
         THEN Field("motion_number",
                    Some(<<Val(motion_match).num, "/", Val(Val(motion_match).den)>>))
         ELSE Field("motion_number", None)

\* lines 86-117, 162-163: one labelled value, or None
labelled(tag, t) ==
    LET m == search(tag, t) IN IF m # None THEN Some(Val(m).val) ELSE None

\* lines 126-145: re.findall over the vote pattern, then the clean-up loop
RECURSIVE extract_votes(_)
extract_votes(t) ==
    IF t = <<>> THEN <<>>
    ELSE IF Head(t).tag = "vote"
         THEN LET name == replace_double_space(strip(Head(t).name)) IN
              IF name = <<>> \/ Len(name) < 2
              THEN extract_votes(Tail(t))
              ELSE <<[name |-> name, vote |-> Head(t).vote, seat |-> Head(t).seat]>>
                   \o extract_votes(Tail(t))
    ELSE extract_votes(Tail(t))

\* lines 148-152
vote_count(votes, v) == Cardinality({i \in 1..Len(votes) : votes[i].vote = v})

parse_reconciled(t) ==
    motion_fields(t)
    @@ [description       |-> labelled("Descripcion", t),
        date              |-> labelled("Fecha", t),
        quorum_type       |-> labelled("Tipo Quorum", t),
        majority_required |-> labelled("Mayoria", t),
        total_members     |-> labelled("Miembros del cuerpo", t),
        present           |-> labelled("Presentes", t),
        absent            |-> labelled("Ausentes", t),
        affirmative       |-> IF labelled("Afirmativos", t) = None THEN None
                              ELSE Some(vote_count(extract_votes(t), "SI")),
        negative          |-> labelled("Negativos", t),
        abstentions       |-> labelled("Abstenciones", t),
        votes             |-> extract_votes(t),
        result            |-> labelled("Resultado", t)]

parse_votation_data(t) ==
    motion_fields(t)
    @@ [description       |-> labelled("Descripcion", t),
        date              |-> labelled("Fecha", t),
        quorum_type       |-> labelled("Tipo Quorum", t),
        majority_required |-> labelled("Mayoria", t),
        total_members     |-> labelled("Miembros del cuerpo", t),
        present           |-> labelled("Presentes", t),
        absent            |-> labelled("Ausentes", t),
        affirmative       |-> labelled("Afirmativos", t),
        negative          |-> labelled("Negativos", t),
        abstentions       |-> labelled("Abstenciones", t),
        votes             |-> extract_votes(t),
        result            |-> labelled("Resultado", t)]

\* lines 112-117: int() raises ValueError on a digit string longer than the
\* interpreter's limit for integer conversion
parse_raises(t) ==
    \E label \in {"Miembros del cuerpo", "Presentes", "Ausentes", "Afirmativos",
                  "Negativos", "Abstenciones"} :
        search(label, t) # None /\ Val(search(label, t)).oversize

\* dict.get
Get(d, k) == IF k \in DOMAIN d THEN d[k] ELSE None

\* lines 119-123 and 154-159: the warnings printed for a parsed record
Warnings(d) ==
    {w \in {"total_members", "affirmative", "negative", "absent"} :
        \/ /\ w = "total_members"
           /\ d.total_members # None /\ d.present # None /\ d.absent # None
           /\ Val(d.total_members) # Val(d.present) + Val(d.absent)
        \/ /\ w = "affirmative"
           /\ d.affirmative # None
           /\ vote_count(d.votes, "SI") # Val(d.affirmative)
        \/ /\ w = "negative"
           /\ d.negative # None
           /\ vote_count(d.votes, "NO") # Val(d.negative)
        \/ /\ w = "absent"
           /\ d.absent # None
           /\ vote_count(d.votes, "AUSENTE") # Val(d.absent)}

-----------------------------------------------------------------------------
(* Inputs: lines and texts *)

Date(d, m, y, h) == [day |-> d, month |-> m, year |-> y, hour |-> h,
                     minute |-> 30, second |-> 0]

ProyectoOrdenTitle == [tag |-> "Proyecto", orden |-> Some("17"),
                       title |-> Some("CD-5/24"),
                       raw |-> "ORDEN DEL DIA 17 (CD-5/24)"]
ProyectoOrden == [tag |-> "Proyecto", orden |-> Some("17"), title |-> None,
                  raw |-> "ORDEN DEL DIA 17"]
ProyectoPlain == [tag |-> "Proyecto", orden |-> None, title |-> None,
                  raw |-> "LEY BASES"]
Mocion == [tag |-> "MOCION SOBRE TABLAS", num |-> "12", den |-> Some("34")]
MocionNoSlash == [tag |-> "MOCION SOBRE TABLAS", num |-> "12", den |-> None]
Fecha(d) == [tag |-> "Fecha", val |-> d]
Tally(label, n) == [tag |-> label, val |-> n, oversize |-> FALSE]
Oversize(label) == [tag |-> label, val |-> 0, oversize |-> TRUE]
Label(label, v) == [tag |-> label, val |-> v]
Vote(name, v, seat) == [tag |-> "vote", name |-> name, vote |-> v, seat |-> seat]

PAZ == <<"P", "A", "Z">>
DELRIO == <<"D", "E", "L", " ", " ", "R", "I", "O">>
A_ == <<"A", " ">>

\* the alphabet of the texts given to the parser on its own
ParseLines ==
    {ProyectoOrdenTitle, ProyectoOrden, ProyectoPlain, Mocion, MocionNoSlash,
     Fecha(Date(10, 12, 2023, 14)), Tally("Afirmativos", 1),
     Vote(PAZ, "SI", "5")}

Texts == UNION {[1..n -> ParseLines] : n \in 1..MaxLines}

\* the documents of the archive
TextNoDate == <<ProyectoPlain, Tally("Afirmativos", 1), Vote(PAZ, "SI", "5")>>
TextBadDate == <<Fecha(Date(29, 2, 2023, 14)), Mocion, Vote(PAZ, "SI", "5")>>
Text2024 == <<Mocion, Fecha(Date(29, 2, 2024, 23)),
              Tally("Miembros del cuerpo", 3), Tally("Presentes", 1),
              Tally("Ausentes", 1), Tally("Afirmativos", 2),
              Vote(PAZ, "SI", "5"), Vote(A_, "SI", "6"),
              Vote(DELRIO, "AUSENTE", "7")>>
Text2025 == <<ProyectoOrdenTitle, Fecha(Date(1, 3, 2025, 9)),
              Tally("Afirmativos", 1), Tally("Negativos", 0),
              Vote(PAZ, "SI", "5"), Label("Resultado", "AFIRMATIVO")>>
TextOversize == <<Fecha(Date(10, 12, 2023, 14)), Oversize("Presentes")>>

ArchiveTexts ==
    {TextNoDate, TextBadDate, Text2024, Text2025, TextOversize}

\* range(2023, 2025)
LoadYears == FirstLoadYear .. (EndLoadYear - 1)

\* the years a file is modelled for: the loaded ones and those the archive's
\* documents designate
Years ==
    LoadYears
    \cup {Val(parse_votation_data(t).date).year :
            t \in {u \in ArchiveTexts : parse_votation_data(u).date # None}}

Filenames == {Filename(y) : y \in Years}

\* a record stored by an earlier run
OldAct(y) ==
    Field("act_id", START_ID)
    @@ parse_votation_data(<<Fecha(Date(2, 1, y, 10)), Vote(PAZ, "NO", "1")>>)

\* a year file: absent, not decodable as JSON, or a JSON array of records
Missing == [st |-> "missing", acts |-> <<>>]
Corrupt == [st |-> "corrupt", acts |-> <<>>]
Stored(acts) == [st |-> "ok", acts |-> acts]

-----------------------------------------------------------------------------
(* main *)

NoData == [unbound |-> TRUE]

\* the year files when the run starts: each holds the array an earlier run
\* wrote, is absent, or does not decode.  The code handles each file on its
\* own, so at most one file at a time departs from the written array.
StartFiles ==
    {f \in [Filenames -> {Missing, Corrupt} \cup {Stored(<<OldAct(y)>>) : y \in Years}] :
        /\ \A y \in Years : f[Filename(y)] \in {Missing, Corrupt, Stored(<<OldAct(y)>>)}
        /\ Cardinality({y \in Years : f[Filename(y)].st # "ok"}) <= 1}

Init ==
    /\ pc = "load"
    /\ files \in StartFiles
    /\ results_by_year = <<>>
    /\ current_id = START_ID
    /\ consecutive_failures = 0
    /\ text = None
    /\ data = NoData
    /\ reported = None
    /\ outcome = "none"
    /\ startFiles = files
    /\ markId = START_ID
    /\ markFiles = files
    /\ nfRun = 0
    /\ sinceStored = 0
    /\ unsaved = {}

\* lines 172-183: json.load of each existing file of the load range; a file
\* that cannot be decoded or read starts its year empty
LoadedKeys == {fn \in {Filename(y) : y \in LoadYears} : files[fn].st # "missing"}

Load ==
    /\ pc = "load"
    /\ results_by_year' =
         [fn \in LoadedKeys |-> IF files[fn].st = "ok" THEN files[fn].acts ELSE <<>>]
    /\ pc' = "loop"
    /\ UNCHANGED <<current_id, consecutive_failures, text, data, files, reported,
                   outcome, startFiles, markId, markFiles, nfRun, sinceStored,
                   unsaved>>

LoopCondInclusive == consecutive_failures <= MAX_CONSECUTIVE_FAILURES

\* line 189
LoopCond == consecutive_failures < MAX_CONSECUTIVE_FAILURES

\* the Document Source holds documents for START_ID+1 .. START_ID+LastDoc
InArchive(id) == id <= START_ID + LastDoc

\* history of an iteration that ends in "consecutive_failures += 1"
Failed(kind) ==
    /\ outcome' = kind
    /\ nfRun' = IF kind = "notfound" /\ nfRun = current_id - markId
                THEN nfRun + 1 ELSE nfRun
    /\ sinceStored' = sinceStored + 1
    /\ UNCHANGED <<startFiles, markId, markFiles, unsaved>>

NotFoundUncounted ==
    /\ pc = "loop" /\ LoopCond
    /\ current_id' = current_id + 1
    /\ Failed("notfound")
    /\ UNCHANGED <<pc, results_by_year, consecutive_failures, text, data, files,
                   reported>>

\* lines 190-193, 225-227: download_pdf returns None
NotFound ==
    /\ pc = "loop" /\ LoopCond
    /\ current_id' = current_id + 1
    /\ consecutive_failures' = consecutive_failures + 1
    /\ Failed("notfound")
    /\ UNCHANGED <<pc, results_by_year, text, data, files, reported>>

\* lines 190-195, 223-224: extract_text_from_pdf returns None
NoText ==
    /\ pc = "loop" /\ LoopCond
    /\ InArchive(current_id + 1)
    /\ current_id' = current_id + 1
    /\ text' = None
    /\ consecutive_failures' = consecutive_failures + 1
    /\ Failed("notext")
    /\ UNCHANGED <<pc, results_by_year, data, files, reported>>

\* lines 196-197, 220-222: parse_votation_data raises; data keeps its
\* previous binding
ParseRaises ==
    /\ pc = "loop" /\ LoopCond
    /\ InArchive(current_id + 1)
    /\ current_id' = current_id + 1
    /\ \E t \in ArchiveTexts : parse_raises(t) /\ text' = t
    /\ consecutive_failures' = consecutive_failures + 1
    /\ Failed("raise")
    /\ UNCHANGED <<pc, results_by_year, data, files, reported>>

NoDateFallsThrough ==
    /\ pc = "loop" /\ LoopCond
    /\ InArchive(current_id + 1)
    /\ current_id' = current_id + 1
    /\ \E t \in ArchiveTexts :
         /\ ~parse_raises(t)
         /\ parse_votation_data(t).date = None
         /\ text' = t
         /\ data' = Field("act_id", current_id') @@ parse_votation_data(t)
    /\ consecutive_failures' = 0
    /\ Failed("nodate")
    /\ UNCHANGED <<pc, results_by_year, files, reported>>

\* lines 197-201: the parsed record has no date
NoDate ==
    /\ pc = "loop" /\ LoopCond
    /\ InArchive(current_id + 1)
    /\ current_id' = current_id + 1
    /\ \E t \in ArchiveTexts :
         /\ ~parse_raises(t)
         /\ parse_votation_data(t).date = None
         /\ text' = t
         /\ data' = parse_votation_data(t)
    /\ consecutive_failures' = consecutive_failures + 1
    /\ Failed("nodate")
    /\ UNCHANGED <<pc, results_by_year, files, reported>>

AppendedReplaces(rby, fn, d) == Field(fn, <<d>>) @@ rby

\* lines 209-211
Appended(rby, fn, d) ==
    IF fn \in DOMAIN rby
    THEN [rby EXCEPT ![fn] = Append(@, d)]
    ELSE Field(fn, <<d>>) @@ rby

\* lines 214-219: open(output_file, "w") then json.dump.  open may raise (the
\* file is left as it was); json.dump may raise after open truncated the file
\* (the file no longer decodes)
Written(fs, fn, acts, w) ==
    IF w = "ok" THEN [fs EXCEPT ![fn] = Stored(acts)]
    ELSE IF w = "open_raises" THEN fs
    ELSE [fs EXCEPT ![fn] = Corrupt]

NoReset == consecutive_failures

\* line 204
ResetCounter == 0

AfterWriteFaultCounted(n) == n + 1

\* lines 218-219: the handler of a failed write prints and leaves the
\* counter as it is
AfterWriteFault(n) == n

\* lines 197-219: the parsed record has a date
Dated ==
    /\ pc = "loop" /\ LoopCond
    /\ InArchive(current_id + 1)
    /\ current_id' = current_id + 1
    /\ \E t \in ArchiveTexts, w \in {"ok", "open_raises", "dump_raises"} :
         LET d == Field("act_id", current_id') @@ parse_votation_data(t)
             output_file == get_output_filename(d.date)
         IN  /\ ~parse_raises(t)
             /\ parse_votation_data(t).date # None
             /\ text' = t
             /\ data' = d
             /\ IF output_file # None
                THEN /\ results_by_year' =
                          Appended(results_by_year, Val(output_file), d)
                     /\ files' = Written(files, Val(output_file),
                                         results_by_year'[Val(output_file)], w)
                     /\ outcome' = IF w = "ok" THEN "saved" ELSE "unsaved"
                     /\ consecutive_failures' =
                          IF w = "ok" THEN ResetCounter
                          ELSE AfterWriteFault(ResetCounter)
                     /\ sinceStored' = 0
                     /\ unsaved' = IF w = "ok" THEN unsaved
                                   ELSE unsaved \cup {<<Val(output_file), current_id'>>}
                ELSE /\ UNCHANGED <<results_by_year, files, unsaved>>
                     /\ consecutive_failures' = ResetCounter
                     /\ outcome' = "baddate"
                     /\ sinceStored' = sinceStored + 1
    /\ nfRun' = 0
    /\ markId' = current_id'
    /\ markFiles' = files'
    /\ UNCHANGED <<pc, reported, startFiles>>

\* lines 189, 229: the loop condition fails
Halt ==
    /\ pc = "loop" /\ ~LoopCond
    /\ pc' = "done"
    /\ reported' = Some(current_id)
    /\ UNCHANGED <<results_by_year, current_id, consecutive_failures, text, data,
                   files, outcome, startFiles, markId, markFiles, nfRun,
                   sinceStored, unsaved>>

Next == Load \/ NotFound \/ NoText \/ ParseRaises \/ NoDate \/ Dated \/ Halt

Spec == Init /\ [][Next]_vars

\* main is sequential and every call it makes returns: a step that can be
\* taken is taken
FairSpec == Spec /\ WF_vars(Next)

-----------------------------------------------------------------------------
(* The Record Parser on its own *)

ParseInit ==
    /\ pc = "parse"
    /\ text \in Texts
    /\ data = NoData
    /\ results_by_year = <<>>
    /\ current_id = START_ID
    /\ consecutive_failures = 0
    /\ files = [fn \in Filenames |-> Missing]
    /\ reported = None
    /\ outcome = "none"
    /\ startFiles = files
    /\ markId = START_ID
    /\ markFiles = files
    /\ nfRun = 0
    /\ sinceStored = 0
    /\ unsaved = {}

Parse ==
    /\ pc = "parse"
    /\ data' = parse_votation_data(text)
    /\ pc' = "parsed"
    /\ UNCHANGED <<results_by_year, current_id, consecutive_failures, text, files,
                   reported, outcome, startFiles, markId, markFiles, nfRun,
                   sinceStored, unsaved>>

ParseNext == Parse

ParseSpec == ParseInit /\ [][ParseNext]_vars

-----------------------------------------------------------------------------
(* Properties *)

IsPrefix(a, b) == Len(a) <= Len(b) /\ SubSeq(b, 1, Len(a)) = a

Range(q) == {q[i] : i \in 1..Len(q)}

Last(q) == q[Len(q)]

\* the in-memory collection of a year, empty when the dict has no such key
Collection(rby, fn) == IF fn \in DOMAIN rby THEN rby[fn] ELSE <<>>

\* the step is one iteration of the while loop
Iteration == pc = "loop" /\ current_id' # current_id

FailKinds == {"notfound", "notext", "raise", "nodate"}
ParsedKinds == {"nodate", "baddate", "saved", "unsaved"}

\* the record parsed in the iteration that just ended has a date from which
\* a year can be derived
UsableDate(d) == d.date # None /\ strptime_ok(Val(d.date))
YearFile(d) == Filename(Val(d.date).year)

\* C1: the counter stays within 0..5, a new identifier is attempted only
\* while the counter is below 5, the run halts only with the counter at 5,
\* and the identifier reported at halt is the last one attempted (the fifth
\* after the last state whose counter was 0).
C1_HaltsExactlyAtThreshold ==
    /\ [](consecutive_failures >= 0 /\ consecutive_failures <= 5)
    /\ [][current_id' # current_id => consecutive_failures < 5]_vars
    /\ [][pc' = "done" /\ pc # "done" => consecutive_failures = 5]_vars
    /\ [](pc = "loop" /\ consecutive_failures < 5 => ENABLED NotFound)
    /\ [](pc = "done" => /\ consecutive_failures = 5
                         /\ reported = Some(current_id)
                         /\ current_id = markId + 5)

C1_Witness == pc = "done" /\ consecutive_failures = 5 /\ reported = Some(START_ID + 7)

\* C2: after five not-found responses in a row that started with the counter
\* at 0, the loop is over (no further identifier can be attempted, only the
\* halt remains or has happened), the cursor is exactly 5 past the cursor
\* before those responses, and every year file is as it was before them.
C2_FiveNotFoundHalt ==
    nfRun = 5 =>
        /\ current_id = markId + 5
        /\ files = markFiles
        /\ pc \in {"loop", "done"}
        /\ pc = "loop" => ENABLED Halt /\ ~ENABLED NotFound /\ ~ENABLED Dated
        /\ pc = "done" => reported = Some(markId + 5)

C2_Witness ==
    /\ nfRun = 5 /\ pc = "done" /\ markId = START_ID + 2
    /\ \E fn \in Filenames : files[fn] # startFiles[fn]

\* C3: an iteration that fails (not found, no text, parser raising, no date)
\* adds exactly 1 to the counter and to the cursor and changes neither a
\* collection nor a file.
C3_FailingIteration ==
    [][Iteration /\ outcome' \in FailKinds =>
         /\ consecutive_failures' = consecutive_failures + 1
         /\ current_id' = current_id + 1
         /\ results_by_year' = results_by_year
         /\ files' = files]_vars

C3_Witness ==
    /\ outcome = "nodate" /\ consecutive_failures = 2
    /\ \E fn \in DOMAIN results_by_year : Len(results_by_year[fn]) = 2

\* C4 (as claimed): an iteration whose parsed record has no date, or a date
\* from which no year can be derived, stores nothing and adds exactly 1 to
\* the counter.
C4_Claim ==
    [][Iteration /\ outcome' \in ParsedKinds /\ ~UsableDate(data') =>
         /\ results_by_year' = results_by_year
         /\ files' = files
         /\ consecutive_failures' = consecutive_failures + 1]_vars

\* C5: an iteration whose parsed record has a usable date resets the
\* counter, stamps the record with the cursor, appends it as the last element
\* of its year's collection (created if absent) and changes no other
\* collection; when the write succeeds the year's file equals the year's
\* collection, and no other file changes.
C5_StoreOnSuccess ==
    [][Iteration /\ outcome' \in ParsedKinds /\ UsableDate(data') =>
         LET fn == YearFile(data') IN
         /\ consecutive_failures' = 0
         /\ data'.act_id = current_id'
         /\ current_id' = current_id + 1
         /\ DOMAIN results_by_year' = DOMAIN results_by_year \cup {fn}
         /\ results_by_year'[fn] = Append(Collection(results_by_year, fn), data')
         /\ \A other \in DOMAIN results_by_year \ {fn} :
              results_by_year'[other] = results_by_year[other]
         /\ \A other \in Filenames \ {fn} : files'[other] = files[other]
         /\ outcome' \in {"saved", "unsaved"}
         /\ outcome' = "saved" => files'[fn] = Stored(results_by_year'[fn])]_vars

C5_Witness ==
    /\ outcome = "saved" /\ consecutive_failures = 0
    /\ LET fn == YearFile(data) IN
         /\ Len(results_by_year[fn]) = 3
         /\ files[fn] = Stored(results_by_year[fn])
         /\ Last(results_by_year[fn]).act_id = current_id

\* C6: a dated record whose extracted counts or membership totals disagree
\* with the reported tallies is stored like any other: the counter is reset
\* to 0, the record is the last element of its year's collection and of the
\* file written, and the stored record carries the tallies as reported in the
\* text and every extracted vote entry.
C6_MismatchStored ==
    [][/\ Iteration /\ outcome' \in ParsedKinds /\ UsableDate(data')
       /\ Warnings(parse_votation_data(text')) # {}
       =>
         LET fn == YearFile(data')
             stored == Last(results_by_year'[fn])
         IN  /\ consecutive_failures' = 0
             /\ Len(results_by_year'[fn]) = Len(Collection(results_by_year, fn)) + 1
             /\ outcome' = "saved" => Last(files'[fn].acts) = stored
             /\ stored.affirmative = labelled("Afirmativos", text')
             /\ stored.negative = labelled("Negativos", text')
             /\ stored.absent = labelled("Ausentes", text')
             /\ stored.present = labelled("Presentes", text')
             /\ stored.total_members = labelled("Miembros del cuerpo", text')
             /\ stored.votes = extract_votes(text')]_vars

C6_Witness ==
    /\ outcome = "saved" /\ consecutive_failures = 0
    /\ {"affirmative", "total_members"} \subseteq Warnings(data)
    /\ Last(files[YearFile(data)].acts) = data
    /\ Val(data.affirmative) = 2 /\ vote_count(data.votes, "SI") = 1

\* the text carries an order-of-business marker / a legacy marker with a
\* <number>/<number> identifier
HasOrden(t) == \E i \in 1..Len(t) : t[i].tag = "Proyecto" /\ t[i].orden # None
LegacyIds(t) ==
    {<<t[i].num, "/", Val(t[i].den)>> :
        i \in {j \in 1..Len(t) : t[j].tag = "MOCION SOBRE TABLAS" /\ t[j].den # None}}

\* C7 (as claimed): without an order-of-business marker, motion_number is the
\* identifier of a legacy marker when the text has one, and absent otherwise.
C7_Claim ==
    pc = "parsed" /\ ~HasOrden(text) =>
        IF LegacyIds(text) # {}
        THEN Get(data, "motion_number") # None
             /\ Val(Get(data, "motion_number")) \in LegacyIds(text)
        ELSE Get(data, "motion_number") = None

\* C8: a failed write leaves the counter at 0 and the loop running, the
\* record stays in its year's collection, and every successful write of a
\* year's file contains every record of that year whose write had failed.
C8_WriteFailureTolerated ==
    [][Iteration =>
         /\ outcome' = "unsaved" =>
              /\ consecutive_failures' = 0
              /\ pc' = "loop"
              /\ data' \in Range(results_by_year'[YearFile(data')])
              /\ <<YearFile(data'), current_id'>> \in unsaved'
         /\ \A u \in unsaved :
              \E r \in Range(results_by_year'[u[1]]) : r.act_id = u[2]
         /\ outcome' = "saved" =>
              \A u \in unsaved :
                 u[1] = YearFile(data') =>
                    \E r \in Range(files'[u[1]].acts) : r.act_id = u[2]]_vars

C8_Witness ==
    /\ outcome = "saved" /\ pc = "loop" /\ consecutive_failures = 0
    /\ <<YearFile(data), current_id - 1>> \in unsaved
    /\ \E r \in Range(files[YearFile(data)].acts) : r.act_id = current_id - 1

\* C9 (as claimed): a year file that was readable when the run started keeps
\* its startup content as a prefix of whatever is later written to it, for
\* every year a record's date can designate.
C9_Claim ==
    \A fn \in Filenames :
        startFiles[fn].st = "ok" /\ files[fn].st = "ok" =>
            IsPrefix(startFiles[fn].acts, files[fn].acts)

\* C10: the run halts once the archive is exhausted (every fetch from some
\* identifier on is not-found), and it halts only after five identifiers in
\* a row without a stored record.
C10_Termination ==
    /\ <>(pc = "done")
    /\ [](pc = "done" => sinceStored >= 5)

C10_Witness ==
    pc = "done" /\ sinceStored = 5 /\ current_id = START_ID + LastDoc + 5

TypeOK ==
    /\ pc \in {"load", "loop", "done", "parse", "parsed"}
    /\ current_id \in Nat
    /\ consecutive_failures \in Nat

====
